---- MODULE Spec2Model ----
(***************************************************************************)
(* REMIPlus tokenizer (src/miditok/tokenizations/remi_plus.py).            *)
(*                                                                         *)
(* The encoder (__notes_to_events), the decoder (tokens_to_midi), the      *)
(* token type graph (_create_token_types_graph) and the event order        *)
(* (_order) as state machines over bounded inputs.                         *)
(*                                                                         *)
(* A token "Type_Value" is the record [type, value]; value is the list of  *)
(* integers its text splits into at "." and "/" ("Duration_1.0.2" is       *)
(* <<1, 0, 2>>, "TimeSig_3/4" is <<3, 4>>, "Bar_None" is <<>>).            *)
(***************************************************************************)
EXTENDS Integers, Sequences, FiniteSets, TLC

VARIABLES
    pc,                  \* where the run is: "enc", "encoded", "dec", "done", "error", "graph", "check", "checked"
    additional_tokens,   \* self.additional_tokens: [TimeSignature, Chord, Tempo : BOOLEAN]
    num_bars,            \* self.num_bars: 0 stands for None
    metadata,            \* self._current_midi_metadata: [time_division, tempo_changes, time_sig_changes]
    notes_with_program,  \* the encoder's argument: the sorted notes, each with its track's program
    chord_results,       \* what detect_chords returned (<<>> when Chord is off)
    enc,                 \* the encoder's locals across its loop over the notes
    tokens,              \* the decoder's argument
    dec,                 \* the decoder's locals across its loop over the tokens
    midi,                \* the decoder's result
    dic,                 \* the token type graph
    val,                 \* the validator's walk: [seq, i, err]
    config,              \* what the vocabulary is built from, besides the flags and num_bars
    vocab                \* the vocabularies built so far, one for each build

vars == <<pc, additional_tokens, num_bars, metadata, notes_with_program,
          chord_results, enc, tokens, dec, midi, dic, val, config, vocab>>

----------------------------------------------------------------------------
(* Bounds of the model *)

MaxNotes == 3
MaxTrackNotes == 2
MaxToks == 4
MaxChunks == 4
MaxTypes == 3
MaxBuilds == 2

(* Configuration and program constants *)

\* max(self.beat_res.values()): beat_res = {(0, 1): 2, (1, 2): 1}
MaxBeatRes == 2
\* TEMPO, the default tempo of the mocked first tempo change
TEMPO == 120
\* TIME_SIGNATURE, the default signature of the mocked first signature
TIME_SIGNATURE == <<4, 4>>
\* self.durations for beat_res = {(0, 1): 2, (1, 2): 1}: (beat, pos, res)
durations == << <<0, 1, 2>>, <<1, 0, 1>>, <<2, 0, 1>> >>
\* the greatest denominator of self.time_signatures
MaxDenom == 8

----------------------------------------------------------------------------
(* Helpers *)

Max(a, b) == IF a >= b THEN a ELSE b

Abs(x) == IF x < 0 THEN -x ELSE x

Range(s) == {s[i] : i \in 1..Len(s)}

\* Tick length of a duration tuple (beat, pos, res)
token_duration_to_ticks(d, time_division) ==
    ((d[1] * d[3] + d[2]) * time_division) \div d[3]

\* self._durations_ticks[time_division]
durations_ticks(time_division) ==
    [i \in 1..Len(durations) |-> token_duration_to_ticks(durations[i], time_division)]

\* np.argmin(np.abs(dur_bins - duration)): the first index of the least distance
ArgMinAbs(dur_bins, duration) ==
    CHOOSE i \in 1..Len(dur_bins) :
        /\ \A j \in 1..Len(dur_bins) :
              Abs(dur_bins[i] - duration) <= Abs(dur_bins[j] - duration)
        /\ \A j \in 1..(i - 1) :
              Abs(dur_bins[j] - duration) > Abs(dur_bins[i] - duration)

RECURSIVE reduce_time_signature(_, _)
\* self._reduce_time_signature: halve both while the denominator is too large
reduce_time_signature(numerator, denominator) ==
    IF denominator > MaxDenom /\ denominator % 2 = 0 /\ numerator % 2 = 0
    THEN reduce_time_signature(numerator \div 2, denominator \div 2)
    ELSE <<numerator, denominator>>

\* int((tick % ticks_per_bar) / ticks_per_sample), ticks_per_sample = time_division / max(beat_res)
pos_index(tick, ticks_per_bar, time_division) ==
    ((tick % ticks_per_bar) * MaxBeatRes) \div time_division

----------------------------------------------------------------------------
(* Events.  ins (the place in the order of appending) and note (the index  *)
(* of the note whose iteration appended the event, 0 for a chord) are      *)
(* history fields: no operation of the program reads them.                 *)

Event(type, value, time, desc) ==
    [type |-> type, value |-> value, time |-> time, desc |-> desc, ins |-> 0, note |-> 0]

\* The rank of an event at its tick
OrderPositionBlind(x) ==
    IF x.type = "Bar" THEN 0
    ELSE IF x.type = "TimeSig" THEN 1
    ELSE IF x.type = "Position" THEN 2
    ELSE IF x.type = "Tempo" THEN 3
    ELSE IF x.type = "Chord" THEN 5
    ELSE IF x.type = "Rest" THEN 7
    ELSE 8

OrderBarLast(x) ==
    IF x.type = "Bar" THEN 8
    ELSE IF x.type = "TimeSig" THEN 1
    ELSE IF x.type = "Position" /\ x.desc = "TempoPosition" THEN 2
    ELSE IF x.type = "Tempo" THEN 3
    ELSE IF x.type = "Position" /\ x.desc = "ChordPosition" THEN 4
    ELSE IF x.type = "Chord" THEN 5
    ELSE IF x.type = "Rest" THEN 7
    ELSE 8

order(x) ==
    IF x.type = "Bar" THEN 0
    ELSE IF x.type = "TimeSig" THEN 1
    ELSE IF x.type = "Position" /\ x.desc = "TempoPosition" THEN 2
    ELSE IF x.type = "Tempo" THEN 3
    ELSE IF x.type = "Position" /\ x.desc = "ChordPosition" THEN 4
    ELSE IF x.type = "Chord" THEN 5
    ELSE IF x.type = "Rest" THEN 7
    ELSE 8

\* key(a) <= key(b) for the key (x.time, self._order(x))
KeyLeq(a, b) ==
    \/ a.time < b.time
    \/ a.time = b.time /\ order(a) <= order(b)

RECURSIVE InsertSorted(_, _)
\* e placed after every element whose key is not greater (a stable insertion)
InsertSorted(s, e) ==
    IF s = <<>> THEN <<e>>
    ELSE IF KeyLeq(s[Len(s)], e) THEN Append(s, e)
    ELSE Append(InsertSorted(SubSeq(s, 1, Len(s) - 1), e), s[Len(s)])

RECURSIVE SortFrom(_, _, _)
SortFrom(sorted, evs, i) ==
    IF i > Len(evs) THEN sorted
    ELSE SortFrom(InsertSorted(sorted, evs[i]), evs, i + 1)

\* events.sort(key=lambda x: (x.time, self._order(x))): a stable sort
sort_events(evs) == SortFrom(<<>>, evs, 1)

\* events appended to the list, each stamped with its place and the note at hand
AppendEvents(events, new, n) ==
    events \o [i \in 1..Len(new) |->
                  [new[i] EXCEPT !.ins = Len(events) + i, !.note = n]]

----------------------------------------------------------------------------
(* The encoder: REMIPlus.__notes_to_events *)

\* Lines 90-113: the locals before the loop (previous_note_end reads the first note)
enc_locals(md, notes) ==
    [ni |-> 0,
     events |-> <<>>,
     previous_tick |-> -1,
     previous_note_end |-> notes[1].start + 1,
     current_bar |-> -1,
     nb_new_bars |-> 0,
     current_tempo_idx |-> 0,
     current_tempo |-> md.tempo_changes[1].tempo,
     current_time_sig_idx |-> 0,
     current_time_sig_tick |-> 0,
     current_time_sig_bar |-> 0,
     current_time_sig |-> reduce_time_signature(md.time_sig_changes[1].numerator,
                                                md.time_sig_changes[1].denominator),
     ticks_per_bar |-> md.time_division * 4]

\* The locals of a run that has not begun
enc_none ==
    [ni |-> 0, events |-> <<>>, previous_tick |-> -1, previous_note_end |-> 0,
     current_bar |-> -1, nb_new_bars |-> 0, current_tempo_idx |-> 0, current_tempo |-> 0,
     current_time_sig_idx |-> 0, current_time_sig_tick |-> 0, current_time_sig_bar |-> 0,
     current_time_sig |-> <<0, 0>>, ticks_per_bar |-> 0]

\* Lines 129-139: the Bar events of a new time step
BarValue(nb, index) == IF nb # 0 THEN <<index>> ELSE <<>>

\* One Bar event fewer than the bars begun
NewBarsOneLess(st, start, nb) ==
    LET nb_new_bars == start \div st.ticks_per_bar - st.current_bar
        n == Max(nb_new_bars - 1, 0)
    IN [i \in 1..n |->
           Event("Bar", BarValue(nb, st.current_bar + i),
                 (st.current_bar + i) * st.ticks_per_bar, 0)]

new_bars(st, start, nb) ==
    LET nb_new_bars == start \div st.ticks_per_bar - st.current_bar
        n == Max(nb_new_bars, 0)
    IN [i \in 1..n |->
           Event("Bar", BarValue(nb, st.current_bar + i),
                 (st.current_bar + i) * st.ticks_per_bar, 0)]

RECURSIVE adopt_time_sigs(_, _, _, _)
\* Lines 148-164: the loop over time_sig_changes[current_time_sig_idx + 1:], at place j
adopt_time_sigs(st, md, j, start) ==
    IF j > Len(md.time_sig_changes) THEN st
    ELSE LET time_sig_change == md.time_sig_changes[j] IN
         IF time_sig_change.time <= start
         THEN LET sig == reduce_time_signature(time_sig_change.numerator,
                                               time_sig_change.denominator)
              IN adopt_time_sigs(
                    [st EXCEPT !.current_time_sig = sig,
                               !.current_time_sig_idx = @ + 1,
                               !.current_time_sig_bar =
                                   @ + (time_sig_change.time - st.current_time_sig_tick)
                                           \div st.ticks_per_bar,
                               !.current_time_sig_tick = time_sig_change.time,
                               !.ticks_per_bar = md.time_division * sig[1]],
                    md, j + 1, start)
         ELSE st

RECURSIVE adopt_tempos(_, _, _, _)
\* Lines 181-191: the loop over tempo_changes[current_tempo_idx + 1:], at place j
adopt_tempos(st, md, j, start) ==
    IF j > Len(md.tempo_changes) THEN st
    ELSE LET tempo_change == md.tempo_changes[j] IN
         IF tempo_change.time <= start
         THEN adopt_tempos([st EXCEPT !.current_tempo = tempo_change.tempo,
                                      !.current_tempo_idx = @ + 1],
                           md, j + 1, start)
         ELSE st

\* Lines 127-212: a note whose start differs from previous_tick opens a time step
new_time_step(st, at, nb, md, note, n) ==
    LET bars == new_bars(st, note.start, nb)
        nb_new_bars == note.start \div st.ticks_per_bar - st.current_bar
        s1 == [st EXCEPT !.events = AppendEvents(@, bars, n),
                         !.current_bar = @ + nb_new_bars,
                         !.nb_new_bars = nb_new_bars]
        s2 == IF at.TimeSignature
              THEN adopt_time_sigs(s1, md, s1.current_time_sig_idx + 2, note.start)
              ELSE s1
        s3 == IF at.TimeSignature /\ nb_new_bars > 0
              THEN [s2 EXCEPT !.events = AppendEvents(@,
                        <<Event("TimeSig", s2.current_time_sig, note.start, "None")>>, n)]
              ELSE s2
        s4 == IF at.Tempo
              THEN adopt_tempos(s3, md, s3.current_tempo_idx + 2, note.start)
              ELSE s3
        s5 == IF at.Tempo /\ nb_new_bars > 0
              THEN [s4 EXCEPT !.events = AppendEvents(@,
                        <<Event("Position",
                                <<pos_index(note.start, s4.ticks_per_bar, md.time_division)>>,
                                note.start, "TempoPosition"),
                          Event("Tempo", <<s4.current_tempo>>, note.start, note.start)>>, n)]
              ELSE s4
    IN [s5 EXCEPT !.previous_tick = note.start]

\* Lines 214-254: the five events of the note itself
note_events(st, md, note) ==
    LET duration == note.end - note.start
        index == ArgMinAbs(durations_ticks(md.time_division), duration)
    IN << Event("Position",
                <<pos_index(note.start, st.ticks_per_bar, md.time_division)>>,
                note.start, "NotePosition"),
          Event("Program", <<IF note.is_drum THEN -1 ELSE note.program>>,
                note.start, note.pitch),
          Event("Pitch", <<note.pitch>>, note.start, note.pitch),
          Event("Velocity", <<note.velocity>>, note.start, note.velocity),
          Event("Duration", durations[index], note.start, duration) >>

\* Lines 126-254: one iteration of the loop, for the note at place n
notes_to_events_step(st, at, nb, md, note, n) ==
    LET s1 == IF note.start # st.previous_tick
              THEN new_time_step(st, at, nb, md, note, n)
              ELSE st
    IN [s1 EXCEPT !.ni = n,
                  !.events = AppendEvents(@, note_events(s1, md, note), n),
                  !.previous_note_end = Max(@, note.end)]

\* Lines 256-267: the chord-anchored Position events, then the Chord events
chord_events(st, md, chords) ==
    [i \in 1..Len(chords) |->
        Event("Position",
              <<pos_index(chords[i].time, st.ticks_per_bar, md.time_division)>>,
              chords[i].time, "ChordPosition")]
    \o chords

\* Lines 256-270: after the loop
notes_to_events_end(st, at, md, chords) ==
    LET all == IF at.Chord THEN AppendEvents(st.events, chord_events(st, md, chords), 0)
               ELSE st.events
    IN sort_events(all)

\* str(event): "Type_Value"
event_to_token(e) == [type |-> e.type, value |-> e.value]

events_to_tokens(evs) == [i \in 1..Len(evs) |-> event_to_token(evs[i])]

RECURSIVE notes_loop(_, _, _, _, _, _)
notes_loop(st, at, nb, md, notes, n) ==
    IF n > Len(notes) THEN st
    ELSE notes_loop(notes_to_events_step(st, at, nb, md, notes[n], n),
                    at, nb, md, notes, n + 1)

\* The whole of __notes_to_events on a list that is not empty
notes_to_events(at, nb, md, notes, chords) ==
    notes_to_events_end(notes_loop(enc_locals(md, notes), at, nb, md, notes, 1),
                        at, md, chords)


----------------------------------------------------------------------------
(* The decoder: REMIPlus.tokens_to_midi *)

TempoChange(tempo, time) == [tempo |-> tempo, time |-> time]

TimeSignature(numerator, denominator, time) ==
    [numerator |-> numerator, denominator |-> denominator, time |-> time]

Note(velocity, pitch, start, end) ==
    [velocity |-> velocity, pitch |-> pitch, start |-> start, end |-> end]

\* Lines 344-358: the locals before the loop
dec_locals(time_division) ==
    [ti |-> 0,
     ticks_per_sample |-> time_division \div MaxBeatRes,
     instruments |-> <<>>,
     tempo_changes |-> <<TempoChange(TEMPO, -1)>>,
     time_signature_changes |-> <<TimeSignature(TIME_SIGNATURE[1], TIME_SIGNATURE[2], 0)>>,
     ticks_per_bar |-> time_division * TIME_SIGNATURE[1],
     current_tick |-> 0,
     current_bar |-> -1,
     previous_note_end |-> 0]

\* The locals of a run that has not begun
dec_none ==
    [ti |-> 0, ticks_per_sample |-> 0, instruments |-> <<>>, tempo_changes |-> <<>>,
     time_signature_changes |-> <<>>, ticks_per_bar |-> 0, current_tick |-> 0,
     current_bar |-> -1, previous_note_end |-> 0]

\* Lines 360-362
on_bar(st) ==
    [st EXCEPT !.current_bar = @ + 1,
               !.current_tick = (st.current_bar + 1) * st.ticks_per_bar]

\* Lines 363-370
on_rest(st, token, time_division) ==
    LET from == IF st.current_tick < st.previous_note_end
                THEN st.previous_note_end ELSE st.current_tick
        tick == from + token.value[1] * time_division + token.value[2] * st.ticks_per_sample
    IN [st EXCEPT !.current_tick = tick,
                  !.current_bar = tick \div st.ticks_per_bar]

\* The tick of a Position counted from the start of the piece, not of the bar
OnPositionNoBar(st, token) ==
    LET bar == IF st.current_bar = -1 THEN 0 ELSE st.current_bar
    IN [st EXCEPT !.current_bar = bar,
                  !.current_tick = token.value[1] * st.ticks_per_sample]

\* Lines 371-379
on_position(st, token) ==
    LET bar == IF st.current_bar = -1 THEN 0 ELSE st.current_bar
    IN [st EXCEPT !.current_bar = bar,
                  !.current_tick = bar * st.ticks_per_bar
                                   + token.value[1] * st.ticks_per_sample]

\* Every Tempo token recorded, whatever the tempo recorded last
OnTempoAlways(st, token) ==
    [st EXCEPT !.tempo_changes = Append(@, TempoChange(token.value[1], st.current_tick))]

\* Lines 380-385
on_tempo(st, token) ==
    LET tempo == token.value[1] IN
    IF tempo # st.tempo_changes[Len(st.tempo_changes)].tempo
    THEN [st EXCEPT !.tempo_changes = Append(@, TempoChange(tempo, st.current_tick))]
    ELSE st

\* self._parse_token_time_signature: "num/den" as two integers
parse_token_time_signature(value) == <<value[1], value[2]>>

\* Lines 386-393
on_time_sig(st, token) ==
    LET sig == parse_token_time_signature(token.value)
        current_time_signature == st.time_signature_changes[Len(st.time_signature_changes)]
    IN IF sig[1] # current_time_signature.numerator
          /\ sig[2] # current_time_signature.denominator
       THEN [st EXCEPT !.time_signature_changes =
                           Append(@, TimeSignature(sig[1], sig[2], st.current_tick))]
       ELSE st

\* tokens[k] for a Python index k (0-based, a negative k counts from the end);
\* Ok is FALSE where Python raises IndexError
IndexOk(toks, k) == -Len(toks) <= k /\ k < Len(toks)

At(toks, k) == IF k < 0 THEN toks[Len(toks) + k + 1] ELSE toks[k + 1]

\* Lines 396-400: the test of the try block, at the 0-based index ti;
\* an IndexError of it is caught and passes (lines 421-424)
note_run_at(toks, ti) ==
    /\ IndexOk(toks, ti + 1)
    /\ At(toks, ti + 1).type = "Velocity"
    /\ IndexOk(toks, ti + 2)
    /\ At(toks, ti + 2).type = "Duration"
    /\ IndexOk(toks, ti - 1)
    /\ At(toks, ti - 1).type = "Program"

\* instruments[program].notes.append(note), the bucket made when its key is new
add_note(instruments, program, note) ==
    IF \E b \in 1..Len(instruments) : instruments[b].key = program
    THEN [b \in 1..Len(instruments) |->
             IF instruments[b].key = program
             THEN [instruments[b] EXCEPT !.notes = Append(@, note)]
             ELSE instruments[b]]
    ELSE Append(instruments,
                [key |-> program,
                 program |-> IF program = -1 THEN 0 ELSE program,
                 is_drum |-> (program = -1),
                 notes |-> <<note>>])

\* Lines 394-424
on_pitch(st, toks, ti, time_division) ==
    IF note_run_at(toks, ti)
    THEN LET program == At(toks, ti - 1).value[1]
             pitch == At(toks, ti).value[1]
             vel == At(toks, ti + 1).value[1]
             duration == token_duration_to_ticks(At(toks, ti + 2).value, time_division)
         IN [st EXCEPT !.instruments =
                           add_note(@, program,
                                    Note(vel, pitch, st.current_tick,
                                         st.current_tick + duration)),
                       !.previous_note_end = Max(@, st.current_tick + duration)]
    ELSE st

\* Lines 359-424: one iteration of the loop, for the token at the 0-based index ti
tokens_to_midi_step(st, toks, ti, time_division) ==
    LET token == toks[ti + 1]
        s1 == IF token.type = "Bar" THEN on_bar(st)
              ELSE IF token.type = "Rest" THEN on_rest(st, token, time_division)
              ELSE IF token.type = "Position" THEN on_position(st, token)
              ELSE IF token.type = "Tempo" THEN on_tempo(st, token)
              ELSE IF token.type = "TimeSig" THEN on_time_sig(st, token)
              ELSE IF token.type = "Pitch" THEN on_pitch(st, toks, ti, time_division)
              ELSE st
    IN [s1 EXCEPT !.ti = ti + 1]

\* Lines 425-427 and 428-430: the mocked first entry deleted when another was
\* recorded; then the first entry's time set to 0
drop_mock(changes) ==
    LET kept == IF Len(changes) > 1 THEN Tail(changes) ELSE changes
    IN [kept EXCEPT ![1].time = 0]

RECURSIVE MaxOf(_, _)
\* max() of a list that is not empty
MaxOf(s, i) == IF i = Len(s) THEN s[i] ELSE Max(s[i], MaxOf(s, i + 1))

\* Lines 435-440: max() raises ValueError on the empty list of tracks
max_tick_raises(instruments) == instruments = <<>>

max_tick(instruments) ==
    MaxOf([b \in 1..Len(instruments) |->
              IF Len(instruments[b].notes) > 0
              THEN MaxOf([k \in 1..Len(instruments[b].notes) |-> instruments[b].notes[k].end], 1)
              ELSE 0], 1)

midi_none ==
    [instruments |-> <<>>, tempo_changes |-> <<>>, time_signature_changes |-> <<>>,
     max_tick |-> 0]

\* Lines 425-440: the result, where max() does not raise
tokens_to_midi_end(st) ==
    [instruments |-> st.instruments,
     tempo_changes |-> drop_mock(st.tempo_changes),
     time_signature_changes |-> drop_mock(st.time_signature_changes),
     max_tick |-> max_tick(st.instruments)]

RECURSIVE tokens_loop(_, _, _, _)
tokens_loop(st, toks, ti, time_division) ==
    IF ti >= Len(toks) THEN st
    ELSE tokens_loop(tokens_to_midi_step(st, toks, ti, time_division),
                     toks, ti + 1, time_division)


----------------------------------------------------------------------------
(* The token type graph: REMIPlus._create_token_types_graph *)

Types == {"Bar", "Position", "Program", "Pitch", "Velocity", "Duration",
          "TimeSig", "Chord", "Tempo"}

\* A base graph in which a Bar may follow a Pitch
BaseGraphPitchBar ==
    [t \in {"Bar", "Position", "Program", "Pitch", "Velocity", "Duration"} |->
        CASE t = "Bar" -> <<"Position", "Bar">>
          [] t = "Position" -> <<"Program">>
          [] t = "Program" -> <<"Pitch">>
          [] t = "Pitch" -> <<"Velocity", "Bar">>
          [] t = "Velocity" -> <<"Duration">>
          [] t = "Duration" -> <<"Program", "Position", "Bar">>]

\* Lines 510-517
base_graph ==
    [t \in {"Bar", "Position", "Program", "Pitch", "Velocity", "Duration"} |->
        CASE t = "Bar" -> <<"Position", "Bar">>
          [] t = "Position" -> <<"Program">>
          [] t = "Program" -> <<"Pitch">>
          [] t = "Pitch" -> <<"Velocity">>
          [] t = "Velocity" -> <<"Duration">>
          [] t = "Duration" -> <<"Program", "Position", "Bar">>]

\* dic[key] = succ, the key added when it is new
SetKey(d, key, succ) ==
    [t \in DOMAIN d \cup {key} |-> IF t = key THEN succ ELSE d[t]]

\* Lines 519-521
with_time_signature(d) ==
    SetKey(SetKey(d, "Bar", <<"TimeSig", "Bar">>), "TimeSig", <<"Position">>)

\* Lines 523-525
with_chord(d) ==
    SetKey(SetKey(d, "Chord", <<"Position">>), "Position", d["Position"] \o <<"Chord">>)

\* Lines 527-529
with_tempo(d) ==
    SetKey(SetKey(d, "Tempo", <<"Position">>), "Position", d["Position"] \o <<"Tempo">>)

\* A build whose Tempo branch assigns the successors of Position instead of extending them
CreateGraphTempoAssigns(at) ==
    LET d1 == IF at.TimeSignature THEN with_time_signature(base_graph) ELSE base_graph
        d2 == IF at.Chord THEN with_chord(d1) ELSE d1
    IN IF at.Tempo
       THEN SetKey(SetKey(d2, "Tempo", <<"Position">>), "Position", <<"Tempo">>)
       ELSE d2

\* Lines 504-531
create_token_types_graph(at) ==
    LET d1 == IF at.TimeSignature THEN with_time_signature(base_graph) ELSE base_graph
        d2 == IF at.Chord THEN with_chord(d1) ELSE d1
    IN IF at.Tempo THEN with_tempo(d2) ELSE d2

\* type b is an allowed successor of type a
Allowed(d, a, b) == a \in DOMAIN d /\ b \in Range(d[a])

\* The validator's test of the pair that ends at place i of the type sequence
validate_step(v, d) ==
    [v EXCEPT !.i = @ + 1,
              !.err = IF Allowed(d, v.seq[v.i], v.seq[v.i + 1]) THEN @ ELSE @ + 1]

val_none == [seq |-> <<>>, i |-> 1, err |-> 0]

RECURSIVE validate_loop(_, _)
\* The validator run to the end of the sequence
validate_loop(v, d) ==
    IF v.i >= Len(v.seq) THEN v ELSE validate_loop(validate_step(v, d), d)

\* The count the validator returns for a sequence of token types
token_types_errors(seq, d) == validate_loop([seq |-> seq, i |-> 1, err |-> 0], d).err


----------------------------------------------------------------------------
(* The vocabulary: REMIPlus._create_base_vocabulary *)

\* The token "Type_Value"
Tok(type, value) == [type |-> type, value |-> value]

\* A tokenizer whose vocabulary is not under study
config_none ==
    [pitch_range |-> <<>>, velocities |-> <<>>, time_signatures |-> <<>>,
     tempos |-> <<>>, chord_maps |-> <<>>]

\* A build that lists the Program tokens before the optional tokens
CreateVocabularyProgramEarly(cfg, at, nb) ==
    (IF nb # 0 THEN [i \in 1..nb |-> Tok("Bar", <<i - 1>>)] ELSE <<Tok("Bar", <<>>)>>)
    \o [i \in 1..Len(cfg.pitch_range) |-> Tok("Pitch", <<cfg.pitch_range[i]>>)]
    \o [i \in 1..Len(cfg.velocities) |-> Tok("Velocity", <<cfg.velocities[i]>>)]
    \o [i \in 1..Len(durations) |-> Tok("Duration", durations[i])]
    \o [i \in 1..(MaxBeatRes * 4) |-> Tok("Position", <<i - 1>>)]
    \o [i \in 1..129 |-> Tok("Program", <<i - 2>>)]
    \o (IF at.TimeSignature
        THEN [i \in 1..Len(cfg.time_signatures) |-> Tok("TimeSig", cfg.time_signatures[i])]
        ELSE <<>>)
    \o (IF at.Chord
        THEN [i \in 1..3 |-> Tok("Chord", <<i + 2>>)]
             \o [i \in 1..Len(cfg.chord_maps) |-> Tok("Chord", <<cfg.chord_maps[i]>>)]
        ELSE <<>>)
    \o (IF at.Tempo
        THEN [i \in 1..Len(cfg.tempos) |-> Tok("Tempo", <<cfg.tempos[i]>>)]
        ELSE <<>>)

\* Lines 460-502; additional_tokens["Program"] is always set (line 65)
create_base_vocabulary(cfg, at, nb) ==
    (IF nb # 0 THEN [i \in 1..nb |-> Tok("Bar", <<i - 1>>)] ELSE <<Tok("Bar", <<>>)>>)
    \o [i \in 1..Len(cfg.pitch_range) |-> Tok("Pitch", <<cfg.pitch_range[i]>>)]
    \o [i \in 1..Len(cfg.velocities) |-> Tok("Velocity", <<cfg.velocities[i]>>)]
    \o [i \in 1..Len(durations) |-> Tok("Duration", durations[i])]
    \o [i \in 1..(MaxBeatRes * 4) |-> Tok("Position", <<i - 1>>)]
    \o (IF at.TimeSignature
        THEN [i \in 1..Len(cfg.time_signatures) |-> Tok("TimeSig", cfg.time_signatures[i])]
        ELSE <<>>)
    \o (IF at.Chord
        THEN [i \in 1..3 |-> Tok("Chord", <<i + 2>>)]
             \o [i \in 1..Len(cfg.chord_maps) |-> Tok("Chord", <<cfg.chord_maps[i]>>)]
        ELSE <<>>)
    \o (IF at.Tempo
        THEN [i \in 1..Len(cfg.tempos) |-> Tok("Tempo", <<cfg.tempos[i]>>)]
        ELSE <<>>)
    \o [i \in 1..129 |-> Tok("Program", <<i - 2>>)]

----------------------------------------------------------------------------
(* Inputs *)

Flags == [TimeSignature : BOOLEAN, Chord : BOOLEAN, Tempo : BOOLEAN]

NoFlags == [TimeSignature |-> FALSE, Chord |-> FALSE, Tempo |-> FALSE]

NumBarsChoices == {0, 4}

SeqsUpTo(S, n) == UNION {[1..k -> S] : k \in 0..n}

\* notes.sort(key=(start, pitch)) was done by the caller (line 316)
SortedNotes(s) ==
    \A i \in 1..(Len(s) - 1) :
        \/ s[i].start < s[i + 1].start
        \/ s[i].start = s[i + 1].start /\ s[i].pitch <= s[i + 1].pitch

InputNote(start, duration, pitch, velocity, program, is_drum) ==
    [start |-> start, end |-> start + duration, pitch |-> pitch, velocity |-> velocity,
     program |-> program, is_drum |-> is_drum]

\* A note list is drawn as the gaps between successive start ticks (the first
\* from tick 0): on the same tick, next to it, a bar or two later
Gaps == {0, 1, 8, 16}

RECURSIVE SumTo(_, _)
SumTo(g, i) == IF i = 0 THEN 0 ELSE g[i].gap + SumTo(g, i - 1)

\* The notes of the encoder runs: one pitch and one duration, any start ticks
EncNoteLists ==
    {[i \in 1..Len(g) |-> InputNote(SumTo(g, i), 1, 60, 100, 0, FALSE)] :
        g \in SeqsUpTo([gap : Gaps], MaxNotes)}

\* The notes of the round trips: one track, so one program for all its notes
Tracks == {[program |-> 0, is_drum |-> FALSE], [program |-> 5, is_drum |-> TRUE]}

\* (duration, pitch, velocity): a duration on a bin, one between two bins, one past the last
NoteKinds == {<<1, 60, 100>>, <<3, 62, 64>>, <<9, 62, 100>>}

TrackNoteLists(track) ==
    {s \in {[i \in 1..Len(g) |->
                InputNote(SumTo(g, i), g[i].kind[1], g[i].kind[2], g[i].kind[3],
                          track.program, track.is_drum)] :
            g \in SeqsUpTo([gap : {0, 1, 16}, kind : NoteKinds], MaxTrackNotes)} :
        SortedNotes(s)}

ChangeTicks == {3, 8}

TempoTimelines ==
    {<<TempoChange(120, 0)>>, <<TempoChange(120, 0), TempoChange(100, 8)>>}

SigTimelines ==
    {<<TimeSignature(f[1], f[2], 0)>> : f \in {<<4, 4>>, <<3, 4>>}}
    \cup {<<TimeSignature(4, 4, 0), TimeSignature(2, 4, t)>> : t \in ChangeTicks}
    \cup {<<TimeSignature(4, 4, 0), TimeSignature(6, 4, 8)>>}

SingleSigs == {<<TimeSignature(f[1], f[2], 0)>> : f \in {<<4, 4>>, <<3, 4>>, <<12, 16>>}}

SingleTempos == {<<TempoChange(t, 0)>> : t \in {100, 120}}

RECURSIVE SortedSeqOf(_)
\* the ticks of a set in increasing order
SortedSeqOf(S) ==
    IF S = {} THEN <<>>
    ELSE LET m == CHOOSE x \in S : \A y \in S : x <= y
         IN <<m>> \o SortedSeqOf(S \ {m})

ChordAt(t) == Event("Chord", <<3>>, t, "chord")

\* What detect_chords may return: chords on onset ticks of notes that are not
\* drums (here no chord, one chord, or chords on two neighbouring onsets)
ChordChoices(notes) ==
    LET onsets == {notes[i].start : i \in {j \in 1..Len(notes) : ~notes[j].is_drum}}
        Neighbours(S) == \A x, y \in S : \A z \in onsets : (x < z /\ z < y) => z \in S
    IN {[i \in 1..Cardinality(S) |-> ChordAt(SortedSeqOf(S)[i])] :
           S \in {T \in SUBSET onsets : Cardinality(T) <= 2 /\ Neighbours(T)}}

----------------------------------------------------------------------------
(* The encoder, a note at a time *)

Init ==
    /\ pc = "start"
    /\ additional_tokens \in Flags
    /\ num_bars = 4
    /\ notes_with_program \in EncNoteLists
    /\ metadata \in
          [time_division : {2},
           tempo_changes : IF additional_tokens.Tempo THEN TempoTimelines
                           ELSE {<<TempoChange(120, 0)>>},
           time_sig_changes : IF additional_tokens.TimeSignature THEN SigTimelines
                              ELSE {<<TimeSignature(4, 4, 0)>>}]
    /\ chord_results \in IF additional_tokens.Chord THEN ChordChoices(notes_with_program)
                         ELSE {<<>>}
    /\ enc = enc_none
    /\ tokens = <<>>
    /\ dec = dec_none
    /\ midi = midi_none
    /\ dic = create_token_types_graph(additional_tokens)
    /\ val = val_none
    /\ config = config_none
    /\ vocab = <<>>

\* Lines 90-124; line 98 raises IndexError on an empty list
EncBegin ==
    /\ pc = "start"
    /\ IF notes_with_program = <<>>
       THEN pc' = "IndexError" /\ UNCHANGED enc
       ELSE pc' = "enc" /\ enc' = enc_locals(metadata, notes_with_program)
    /\ UNCHANGED <<additional_tokens, num_bars, metadata, notes_with_program,
                   chord_results, tokens, dec, midi, dic, val, config, vocab>>

\* Lines 126-254
EncNote ==
    /\ pc = "enc"
    /\ enc.ni < Len(notes_with_program)
    /\ enc' = notes_to_events_step(enc, additional_tokens, num_bars, metadata,
                                   notes_with_program[enc.ni + 1], enc.ni + 1)
    /\ UNCHANGED <<pc, additional_tokens, num_bars, metadata, notes_with_program,
                   chord_results, tokens, dec, midi, dic, val, config, vocab>>

\* Lines 256-270, and the events as tokens
EncEnd ==
    /\ pc = "enc"
    /\ enc.ni = Len(notes_with_program)
    /\ enc' = [enc EXCEPT !.events =
                   notes_to_events_end(enc, additional_tokens, metadata, chord_results)]
    /\ tokens' = events_to_tokens(enc'.events)
    /\ pc' = "encoded"
    /\ UNCHANGED <<additional_tokens, num_bars, metadata, notes_with_program,
                   chord_results, dec, midi, dic, val, config, vocab>>

Next == EncBegin \/ EncNote \/ EncEnd

Spec == Init /\ [][Next]_vars

----------------------------------------------------------------------------
(* The decoder, a token at a time *)

\* Lines 338-358; the assert of line 340 raises when time_division is not a
\* multiple of max(beat_res)
DecBegin ==
    /\ pc = "encoded"
    /\ IF metadata.time_division % MaxBeatRes # 0
       THEN pc' = "AssertionError" /\ UNCHANGED dec
       ELSE pc' = "dec" /\ dec' = dec_locals(metadata.time_division)
    /\ UNCHANGED <<additional_tokens, num_bars, metadata, notes_with_program,
                   chord_results, enc, tokens, midi, dic, val, config, vocab>>

\* Lines 359-424
DecToken ==
    /\ pc = "dec"
    /\ dec.ti < Len(tokens)
    /\ dec' = tokens_to_midi_step(dec, tokens, dec.ti, metadata.time_division)
    /\ UNCHANGED <<pc, additional_tokens, num_bars, metadata, notes_with_program,
                   chord_results, enc, tokens, midi, dic, val, config, vocab>>

\* Lines 425-445; max() of line 435 raises ValueError when no track was made
DecEnd ==
    /\ pc = "dec"
    /\ dec.ti = Len(tokens)
    /\ IF max_tick_raises(dec.instruments)
       THEN pc' = "ValueError" /\ UNCHANGED midi
       ELSE pc' = "done" /\ midi' = tokens_to_midi_end(dec)
    /\ UNCHANGED <<additional_tokens, num_bars, metadata, notes_with_program,
                   chord_results, enc, tokens, dec, dic, val, config, vocab>>

\* Tokens of the vocabulary, a few of each type
Vocabulary ==
    {Tok("Bar", <<>>), Tok("Position", <<1>>), Tok("Tempo", <<100>>),
     Tok("TimeSig", <<3, 4>>), Tok("TimeSig", <<3, 8>>),
     Tok("Program", <<0>>), Tok("Pitch", <<60>>), Tok("Velocity", <<100>>),
     Tok("Duration", <<1, 0, 1>>)}

DefaultMetadata(time_division) ==
    [time_division |-> time_division,
     tempo_changes |-> <<TempoChange(120, 0)>>,
     time_sig_changes |-> <<TimeSignature(4, 4, 0)>>]

InitDecWith(toks) ==
    /\ pc = "encoded"
    /\ additional_tokens = [TimeSignature |-> TRUE, Chord |-> FALSE, Tempo |-> TRUE]
    /\ num_bars = 0
    /\ notes_with_program = <<>>
    /\ metadata = DefaultMetadata(4)
    /\ chord_results = <<>>
    /\ enc = enc_none
    /\ tokens \in toks
    /\ dec = dec_none
    /\ midi = midi_none
    /\ dic = create_token_types_graph(additional_tokens)
    /\ val = val_none
    /\ config = config_none
    /\ vocab = <<>>

InitDec == InitDecWith(SeqsUpTo(Vocabulary, MaxToks))

NextDec == DecBegin \/ DecToken \/ DecEnd

SpecDec == InitDec /\ [][NextDec]_vars


----------------------------------------------------------------------------
(* The decoder on streams of tokens of every type of the vocabulary that end *)
(* in the four tokens of a note                                             *)

NoteRun ==
    <<Tok("Program", <<0>>), Tok("Pitch", <<60>>), Tok("Velocity", <<100>>),
      Tok("Duration", <<1, 0, 1>>)>>

\* Tokens of every type of the vocabulary: two positions of a bar, the default
\* tempo and another one, a signature that differs from 4/4 in both parts
StreamTokens ==
    {Tok("Bar", <<>>), Tok("Position", <<0>>), Tok("Position", <<1>>),
     Tok("Tempo", <<100>>), Tok("Tempo", <<120>>),
     Tok("TimeSig", <<3, 8>>), Tok("Chord", <<3>>),
     Tok("Program", <<0>>), Tok("Pitch", <<60>>), Tok("Velocity", <<100>>),
     Tok("Duration", <<1, 0, 1>>)}

InitTempo == InitDecWith({s \o NoteRun : s \in SeqsUpTo(StreamTokens, MaxChunks)})

SpecTempo == InitTempo /\ [][NextDec]_vars

----------------------------------------------------------------------------
(* Encoding, then decoding what was encoded: each function in one step *)

InitRT ==
    /\ pc = "start"
    /\ additional_tokens \in Flags
    /\ num_bars \in NumBarsChoices
    /\ \E track \in Tracks : notes_with_program \in TrackNoteLists(track)
    /\ metadata \in
          [time_division : IF additional_tokens = NoFlags THEN {2, 3, 4} ELSE {4},
           tempo_changes : IF additional_tokens.Tempo THEN {<<TempoChange(100, 0)>>}
                           ELSE {<<TempoChange(120, 0)>>},
           time_sig_changes : IF additional_tokens.TimeSignature THEN SingleSigs
                              ELSE {<<TimeSignature(4, 4, 0)>>}]
    /\ chord_results \in IF additional_tokens.Chord THEN ChordChoices(notes_with_program)
                         ELSE {<<>>}
    /\ enc = enc_none
    /\ tokens = <<>>
    /\ dec = dec_none
    /\ midi = midi_none
    /\ dic = create_token_types_graph(additional_tokens)
    /\ val = val_none
    /\ config = config_none
    /\ vocab = <<>>

\* __notes_to_events, lines 78-270, then the events as tokens
Encode ==
    /\ pc = "start"
    /\ IF notes_with_program = <<>>
       THEN pc' = "IndexError" /\ UNCHANGED <<enc, tokens, config, vocab>>
       ELSE /\ pc' = "encoded"
            /\ enc' = LET st == notes_loop(enc_locals(metadata, notes_with_program),
                                           additional_tokens, num_bars, metadata,
                                           notes_with_program, 1)
                      IN [st EXCEPT !.events =
                             notes_to_events_end(st, additional_tokens, metadata,
                                                 chord_results)]
            /\ tokens' = events_to_tokens(enc'.events)
    /\ UNCHANGED <<additional_tokens, num_bars, metadata, notes_with_program,
                   chord_results, dec, midi, dic, val, config, vocab>>

\* tokens_to_midi, lines 323-445
Decode ==
    /\ pc = "encoded"
    /\ IF metadata.time_division % MaxBeatRes # 0
       THEN pc' = "AssertionError" /\ UNCHANGED <<dec, midi, config, vocab>>
       ELSE /\ dec' = tokens_loop(dec_locals(metadata.time_division), tokens, 0,
                                  metadata.time_division)
            /\ IF max_tick_raises(dec'.instruments)
               THEN pc' = "ValueError" /\ UNCHANGED midi
               ELSE pc' = "done" /\ midi' = tokens_to_midi_end(dec')
    /\ UNCHANGED <<additional_tokens, num_bars, metadata, notes_with_program,
                   chord_results, enc, tokens, dic, val, config, vocab>>

NextRT == Encode \/ Decode

SpecRT == InitRT /\ [][NextRT]_vars

----------------------------------------------------------------------------
(* The type graph built, then a sequence of token types validated against it *)

InitGraph ==
    /\ pc = "graph"
    /\ additional_tokens \in Flags
    /\ num_bars = 0
    /\ notes_with_program = <<>>
    /\ metadata = DefaultMetadata(4)
    /\ chord_results = <<>>
    /\ enc = enc_none
    /\ tokens = <<>>
    /\ dec = dec_none
    /\ midi = midi_none
    /\ dic = <<>>
    /\ val \in [seq : SeqsUpTo(Types, MaxTypes), i : {1}, err : {0}]
    /\ config = config_none
    /\ vocab = <<>>

\* _create_token_types_graph, lines 504-531
CreateGraph ==
    /\ pc = "graph"
    /\ dic' = create_token_types_graph(additional_tokens)
    /\ pc' = "check"
    /\ UNCHANGED <<additional_tokens, num_bars, metadata, notes_with_program,
                   chord_results, enc, tokens, dec, midi, val, config, vocab>>

\* The validator at the next pair of the sequence
Validate ==
    /\ pc = "check"
    /\ val.i < Len(val.seq)
    /\ val' = validate_step(val, dic)
    /\ UNCHANGED <<pc, additional_tokens, num_bars, metadata, notes_with_program,
                   chord_results, enc, tokens, dec, midi, dic, config, vocab>>

\* The validator past the last pair: the count is returned
ValidateEnd ==
    /\ pc = "check"
    /\ val.i >= Len(val.seq)
    /\ pc' = "checked"
    /\ UNCHANGED <<additional_tokens, num_bars, metadata, notes_with_program,
                   chord_results, enc, tokens, dec, midi, dic, val, config, vocab>>

NextGraph == CreateGraph \/ Validate \/ ValidateEnd

SpecGraph == InitGraph /\ [][NextGraph]_vars

----------------------------------------------------------------------------
(* The vocabulary built again and again from one configuration *)

Configs ==
    [pitch_range : {<<21>>, <<60, 61>>},
     velocities : {<<127>>, <<64, 127>>},
     time_signatures : {<< <<4, 4>> >>, << <<3, 4>>, <<4, 4>> >>},
     tempos : {<<120>>, <<100, 120>>},
     chord_maps : {<<"maj">>, <<"min", "maj">>}]

InitVocab ==
    /\ pc = "vocab"
    /\ additional_tokens \in Flags
    /\ num_bars \in NumBarsChoices
    /\ notes_with_program = <<>>
    /\ metadata = DefaultMetadata(4)
    /\ chord_results = <<>>
    /\ enc = enc_none
    /\ tokens = <<>>
    /\ dec = dec_none
    /\ midi = midi_none
    /\ dic = <<>>
    /\ val = val_none
    /\ config \in Configs
    /\ vocab = <<>>

\* _create_base_vocabulary, lines 447-502: it reads the configuration and returns a new list
BuildVocabulary ==
    /\ pc = "vocab"
    /\ Len(vocab) < MaxBuilds
    /\ vocab' = Append(vocab, create_base_vocabulary(config, additional_tokens, num_bars))
    /\ UNCHANGED <<pc, additional_tokens, num_bars, metadata, notes_with_program,
                   chord_results, enc, tokens, dec, midi, dic, val, config>>

NextVocab == BuildVocabulary

SpecVocab == InitVocab /\ [][NextVocab]_vars


----------------------------------------------------------------------------
(* Properties *)

Out == enc.events

IsNotePosition(e) == e.type = "Position" /\ e.desc = "NotePosition"

IsTempoPosition(e) == e.type = "Position" /\ e.desc = "TempoPosition"

\* ticks is the length of a bin than which no bin is nearer to duration
NearestBin(ticks, duration, time_division) ==
    \E i \in 1..Len(durations) :
        /\ token_duration_to_ticks(durations[i], time_division) = ticks
        /\ \A j \in 1..Len(durations) :
              Abs(ticks - duration)
                  <= Abs(token_duration_to_ticks(durations[j], time_division) - duration)

\* C1: Round trip.  Whenever encoding a sorted single-track note list (one
\* tempo, one time signature) and decoding the tokens returns a result, the
\* result holds one bucket, keyed by the track's program (-1 for a drum track),
\* with as many notes in the same order, each with the pitch and velocity of
\* the original, a start less than one ticks_per_sample away from the
\* original start, and as duration the length of a bin nearest to the
\* original duration.
RoundTrip ==
    pc = "done" =>
        LET td == metadata.time_division
            orig == notes_with_program
            b == midi.instruments
        IN /\ Len(b) = 1
           /\ b[1].key = (IF orig[1].is_drum THEN -1 ELSE orig[1].program)
           /\ b[1].is_drum = orig[1].is_drum
           /\ Len(b[1].notes) = Len(orig)
           /\ \A i \in 1..Len(orig) :
                 /\ b[1].notes[i].pitch = orig[i].pitch
                 /\ b[1].notes[i].velocity = orig[i].velocity
                 /\ Abs(b[1].notes[i].start - orig[i].start) * MaxBeatRes < td
                 /\ NearestBin(b[1].notes[i].end - b[1].notes[i].start,
                               orig[i].end - orig[i].start, td)

\* A drum track of two notes, the second in bar 1 off the position grid,
\* with every optional token on, decoded
RoundTripWitness ==
    /\ pc = "done"
    /\ additional_tokens = [TimeSignature |-> TRUE, Chord |-> TRUE, Tempo |-> TRUE]
    /\ Len(notes_with_program) = 2
    /\ notes_with_program[1].is_drum
    /\ notes_with_program[2].start = 17
    /\ notes_with_program[2].end - notes_with_program[2].start = 3
    /\ midi.instruments[1].notes[2].start = 16
    /\ midi.instruments[1].notes[2].end = 18

ConstantTicksPerBar ==
    ~additional_tokens.TimeSignature \/ Len(metadata.time_sig_changes) = 1

\* The bar the first note starts (constant ticks_per_bar = 4 * time_division)
FirstBar == notes_with_program[1].start \div (4 * metadata.time_division)

FirstNoteOpensBar ==
    /\ pc = "encoded"
    /\ ConstantTicksPerBar
    /\ notes_with_program[1].start % (4 * metadata.time_division) = 0

\* The place in the output of the Position of the first note
FirstNotePosition == CHOOSE k \in 1..Len(Out) : IsNotePosition(Out[k]) /\ Out[k].note = 1

BarsBefore(k) == Cardinality({j \in 1..(k - 1) : Out[j].type = "Bar"})

\* C2 as stated: with bars 0..N-1 empty and the first note at the start of
\* bar N, exactly N Bar events come before the Position of that note.
BarAccountingN ==
    FirstNoteOpensBar => BarsBefore(FirstNotePosition) = FirstBar

\* C2, amended: with bars 0..N-1 empty and the first note at the start of
\* bar N (constant ticks_per_bar), the output begins with exactly N + 1
\* consecutive Bar events, one for each bar 0..N at that bar's first tick, and
\* no other Bar event comes before the Position of that note; and the output
\* holds one Bar event for each bar up to the bar of the last note.
BarAccounting ==
    /\ FirstNoteOpensBar =>
          /\ BarsBefore(FirstNotePosition) = FirstBar + 1
          /\ \A j \in 1..(FirstBar + 1) :
                /\ Out[j].type = "Bar"
                /\ Out[j].time = (j - 1) * 4 * metadata.time_division
                /\ Out[j].value = <<j - 1>>
          /\ Out[FirstBar + 2].type # "Bar"
    /\ (pc = "encoded" /\ ConstantTicksPerBar) =>
          BarsBefore(Len(Out) + 1)
              = notes_with_program[Len(notes_with_program)].start
                    \div (4 * metadata.time_division) + 1

\* The first note at the start of bar 2, after two empty bars
BarAccountingWitness ==
    /\ FirstNoteOpensBar
    /\ FirstBar = 2
    /\ Len(notes_with_program) > 1
    /\ BarsBefore(FirstNotePosition) = 3

\* The five events of note n lie at the places k..k+4 of the output
RunAt(k, n) ==
    /\ k + 4 <= Len(Out)
    /\ \A d \in 0..4 : Out[k + d].note = n
    /\ IsNotePosition(Out[k])
    /\ Out[k + 1].type = "Program"
    /\ Out[k + 2].type = "Pitch"
    /\ Out[k + 2].value = <<notes_with_program[n].pitch>>
    /\ Out[k + 3].type = "Velocity"
    /\ Out[k + 4].type = "Duration"

\* C3: in the sorted output every note has exactly one run Position, Program,
\* Pitch, Velocity, Duration in five consecutive places, the Position being
\* the note-anchored Position appended for that note, and no event of the
\* note lies outside the run.
NoteRuns ==
    pc = "encoded" =>
        \A n \in 1..Len(notes_with_program) :
            /\ Cardinality({k \in 1..Len(Out) : RunAt(k, n)}) = 1
            /\ Cardinality({k \in 1..Len(Out) :
                   Out[k].note = n
                   /\ Out[k].type \in {"Program", "Pitch", "Velocity", "Duration"}}) = 4
            /\ Cardinality({k \in 1..Len(Out) :
                   Out[k].note = n /\ IsNotePosition(Out[k])}) = 1

\* Two notes on one tick that opens a bar, with a TimeSig, a Tempo and a
\* Chord event on that tick
NoteRunsWitness ==
    /\ pc = "encoded"
    /\ Len(notes_with_program) >= 2
    /\ notes_with_program[1].start = 8
    /\ notes_with_program[2].start = 8
    /\ \E k \in 1..Len(Out) : Out[k].type = "TimeSig" /\ Out[k].time = 8
    /\ \E k \in 1..Len(Out) : Out[k].type = "Tempo" /\ Out[k].time = 8
    /\ \E k \in 1..Len(Out) : Out[k].type = "Chord" /\ Out[k].time = 8

\* The rank of the ordering as the specification states it
Rank(e) ==
    CASE e.type = "Bar" -> 0
      [] e.type = "TimeSig" -> 1
      [] IsTempoPosition(e) -> 2
      [] e.type = "Tempo" -> 3
      [] e.type = "Position" /\ e.desc = "ChordPosition" -> 4
      [] e.type = "Chord" -> 5
      [] e.type = "Rest" -> 7
      [] OTHER -> 8

\* C4: the output holds every appended event once, ordered by (tick, rank):
\* ticks never decrease, on one tick ranks never decrease, events of one tick
\* and rank keep the order of appending; a Bar and a tempo-anchored Position
\* of one tick come out Bar first.
OutputOrdered ==
    pc = "encoded" =>
        /\ {Out[k].ins : k \in 1..Len(Out)} = 1..Len(Out)
        /\ \A i \in 1..(Len(Out) - 1) :
              LET a == Out[i]
                  b == Out[i + 1]
              IN /\ a.time <= b.time
                 /\ a.time = b.time => Rank(a) <= Rank(b)
                 /\ (a.time = b.time /\ Rank(a) = Rank(b)) => a.ins < b.ins
        /\ \A i, j \in 1..Len(Out) :
              (i < j /\ Out[i].time = Out[j].time /\ IsTempoPosition(Out[i]))
                  => Out[j].type # "Bar"

\* A Bar event that was appended after a tempo-anchored Position of its tick
\* and comes out before it
OutputOrderedWitness ==
    /\ pc = "encoded"
    /\ \E i, j \in 1..Len(Out) :
          /\ i < j
          /\ Out[i].type = "Bar"
          /\ IsTempoPosition(Out[j])
          /\ Out[i].time = Out[j].time
          /\ Out[i].ins > Out[j].ins

\* Every TimeSig event directly follows a Bar event; every Tempo event
\* directly follows its tempo-anchored Position, which directly follows a Bar
\* event or the TimeSig event that follows a Bar event
BarAdjacent ==
    \A k \in 1..Len(Out) :
        /\ Out[k].type = "TimeSig" => (k > 1 /\ Out[k - 1].type = "Bar")
        /\ Out[k].type = "Tempo" =>
              /\ k > 2
              /\ IsTempoPosition(Out[k - 1])
              /\ Out[k - 1].note = Out[k].note
              /\ \/ Out[k - 2].type = "Bar"
                 \/ Out[k - 2].type = "TimeSig" /\ k > 3 /\ Out[k - 3].type = "Bar"

\* C5 as stated: in the output, for every timeline (signature changes that
\* alter ticks_per_bar included), TimeSig and Tempo events are adjacent to the
\* Bar run that caused them, no note-related event in between.
TimeSigTempoAfterBar == pc = "encoded" => BarAdjacent

\* The same while ticks_per_bar stays what it was at the start
TimeSigTempoAfterBarConstant == (pc = "encoded" /\ ConstantTicksPerBar) => BarAdjacent


TempoTokens == {i \in 1..Len(tokens) : tokens[i].type = "Tempo"}

\* The value of the last Tempo token before place i, the default tempo when there is none
TempoBefore(i) ==
    IF \E j \in TempoTokens : j < i
    THEN tokens[CHOOSE j \in TempoTokens : j < i /\ \A h \in TempoTokens : h < i => h <= j].value[1]
    ELSE TEMPO

\* The Tempo tokens whose value differs from the tempo before them
TempoChanges == {i \in TempoTokens : tokens[i].value[1] # TempoBefore(i)}

NondecreasingTicks(timeline) ==
    \A i \in 1..(Len(timeline) - 1) : timeline[i].time <= timeline[i + 1].time

\* No Position token has a smaller index than an earlier Position token of its bar
PositionsAscend ==
    \A i, j \in 1..Len(tokens) :
        (/\ i < j
         /\ tokens[i].type = "Position"
         /\ tokens[j].type = "Position"
         /\ \A h \in i..j : tokens[h].type # "Bar")
            => tokens[i].value[1] <= tokens[j].value[1]

CompleteRunAt(i) ==
    /\ 2 <= i
    /\ i + 2 <= Len(tokens)
    /\ tokens[i - 1].type = "Program"
    /\ tokens[i].type = "Pitch"
    /\ tokens[i + 1].type = "Velocity"
    /\ tokens[i + 2].type = "Duration"

RECURSIVE NoteCount(_, _)
NoteCount(instruments, b) ==
    IF b > Len(instruments) THEN 0
    ELSE Len(instruments[b].notes) + NoteCount(instruments, b + 1)

\* C7: decoding a sequence of vocabulary tokens never raises; the result
\* holds one note for each complete run and no other, and its max_tick is the
\* greatest note end, 0 without a note.
DecodeNeverFails ==
    /\ pc # "ValueError"
    /\ pc = "done" =>
          /\ NoteCount(midi.instruments, 1)
                = Cardinality({i \in 1..Len(tokens) : CompleteRunAt(i)})
          /\ \A b \in 1..Len(midi.instruments) :
                \A n \in 1..Len(midi.instruments[b].notes) :
                    midi.instruments[b].notes[n].end <= midi.max_tick

\* C8: a step of the decoder adds a note only at a Pitch token that has a
\* Program token before it and a Velocity and a Duration token after it; the
\* Pitch token at index 0 has no token before it and adds none.
NoteOnlyAfterProgram ==
    [][(pc = "dec" /\ dec'.instruments # dec.instruments)
          => CompleteRunAt(dec.ti + 1)]_vars

\* C9: a step of the decoder at a TimeSig token appends a TimeSignature with
\* the pair of the token at current_tick when the pair differs from the last
\* recorded one in the numerator, the denominator or both, and leaves the
\* timeline as it is when the pair is the same.
TimeSigRecorded ==
    [][(pc = "dec" /\ dec.ti < Len(tokens) /\ tokens[dec.ti + 1].type = "TimeSig")
          => LET sig == tokens[dec.ti + 1].value
                 timeline == dec.time_signature_changes
                 last == timeline[Len(timeline)]
             IN IF sig # <<last.numerator, last.denominator>>
                THEN dec'.time_signature_changes
                        = Append(timeline, TimeSignature(sig[1], sig[2], dec.current_tick))
                ELSE dec'.time_signature_changes = timeline]_vars

Edges(d) == UNION {{<<a, d[a][i]>> : i \in 1..Len(d[a])} : a \in DOMAIN d}

BaseEdges ==
    {<<"Bar", "Position">>, <<"Bar", "Bar">>, <<"Position", "Program">>,
     <<"Program", "Pitch">>, <<"Pitch", "Velocity">>, <<"Velocity", "Duration">>,
     <<"Duration", "Program">>, <<"Duration", "Position">>, <<"Duration", "Bar">>}

FlagEdges(at) ==
    (IF at.TimeSignature THEN {<<"Bar", "TimeSig">>, <<"TimeSig", "Position">>} ELSE {})
    \cup (IF at.Chord THEN {<<"Chord", "Position">>, <<"Position", "Chord">>} ELSE {})
    \cup (IF at.Tempo THEN {<<"Tempo", "Position">>, <<"Position", "Tempo">>} ELSE {})

\* C10 as stated: for every combination of flags the graph holds every base
\* edge, and a flag only adds its edges.
GraphOnlyAdds ==
    pc \in {"check", "checked"} =>
        Edges(dic) = BaseEdges \cup FlagEdges(additional_tokens)

\* C10, amended: for every combination of flags the graph holds every base
\* edge but Bar to Position, which TimeSignature removes (the successors of
\* Bar become TimeSig and Bar); but for that, a flag only adds its edges.
GraphEdges ==
    pc \in {"check", "checked"} =>
        Edges(dic) = (BaseEdges \ (IF additional_tokens.TimeSignature
                                   THEN {<<"Bar", "Position">>} ELSE {}))
                     \cup FlagEdges(additional_tokens)

\* The graph built with the three flags on
GraphEdgesWitness ==
    /\ pc = "check"
    /\ additional_tokens = [TimeSignature |-> TRUE, Chord |-> TRUE, Tempo |-> TRUE]
    /\ <<"Bar", "Position">> \notin Edges(dic)
    /\ <<"Position", "Tempo">> \in Edges(dic)

----------------------------------------------------------------------------
(* The encoder output against the type graph of the same flags *)

\* The types of the tokens of the output
TokenTypes == [i \in 1..Len(tokens) |-> tokens[i].type]

\* C11: the validator counts no illegal adjacent pair in the types of the
\* encoder output, under the type graph built from the flags of the run.
EncoderOutputLegal ==
    pc = "encoded" => token_types_errors(TokenTypes, dic) = 0

\* The same while ticks_per_bar is constant over the run
EncoderOutputLegalConstant ==
    (pc = "encoded" /\ ConstantTicksPerBar) => token_types_errors(TokenTypes, dic) = 0

----------------------------------------------------------------------------
(* The validator *)

\* The adjacent pairs of a type sequence whose second type is not an allowed
\* successor of the first
IllegalPairs(seq, d) ==
    {i \in 1..(Len(seq) - 1) : ~(seq[i] \in DOMAIN d /\ seq[i + 1] \in Range(d[seq[i]]))}

\* C12: the validator never aborts (its walk is at a pair of the sequence or
\* past the last one, and has counted the illegal pairs it has passed), it
\* returns the number of illegal adjacent pairs of the sequence, and under the
\* base graph it returns exactly 1 for the types of [Pitch_60, Bar_1].
ValidatorCounts ==
    /\ pc \in {"graph", "check", "checked"}
    /\ pc \in {"check", "checked"} =>
          /\ val.i \in 1..Max(Len(val.seq), 1)
          /\ val.err = Cardinality({i \in IllegalPairs(val.seq, dic) : i < val.i})
    /\ pc = "checked" =>
          /\ val.err = Cardinality(IllegalPairs(val.seq, dic))
          /\ (additional_tokens = NoFlags /\ val.seq = <<"Pitch", "Bar">>) => val.err = 1

\* [Pitch_60, Bar_1] walked to its end under the base graph, one error counted
ValidatorCountsWitness ==
    /\ pc = "checked"
    /\ additional_tokens = NoFlags
    /\ dic = base_graph
    /\ val.seq = <<"Pitch", "Bar">>
    /\ val.i = 2
    /\ val.err = 1

----------------------------------------------------------------------------
(* The vocabulary *)

\* The place of a token type in the vocabulary
TypeRank(t) ==
    CASE t = "Bar" -> 1
      [] t = "Pitch" -> 2
      [] t = "Velocity" -> 3
      [] t = "Duration" -> 4
      [] t = "Position" -> 5
      [] t = "TimeSig" -> 6
      [] t = "Chord" -> 7
      [] t = "Tempo" -> 8
      [] t = "Program" -> 9

\* The token types a configuration enables
EnabledTypes ==
    {"Bar", "Pitch", "Velocity", "Duration", "Position", "Program"}
    \cup (IF additional_tokens.TimeSignature THEN {"TimeSig"} ELSE {})
    \cup (IF additional_tokens.Chord THEN {"Chord"} ELSE {})
    \cup (IF additional_tokens.Tempo THEN {"Tempo"} ELSE {})

\* The values of the tokens of type t, in the order of the vocabulary v
ValuesOf(v, t) ==
    LET sel == SelectSeq(v, LAMBDA x : x.type = t)
    IN [i \in 1..Len(sel) |-> sel[i].value]

\* A vocabulary in the stated order, with the tokens of its configuration
InOrder(v) ==
    /\ \A k \in 1..(Len(v) - 1) : TypeRank(v[k].type) <= TypeRank(v[k + 1].type)
    /\ {v[k].type : k \in 1..Len(v)} = EnabledTypes
    /\ ValuesOf(v, "Bar") = IF num_bars # 0 THEN [i \in 1..num_bars |-> <<i - 1>>]
                                           ELSE << <<>> >>
    /\ ValuesOf(v, "Pitch") = [i \in 1..Len(config.pitch_range) |-> <<config.pitch_range[i]>>]
    /\ ValuesOf(v, "Velocity") = [i \in 1..Len(config.velocities) |-> <<config.velocities[i]>>]
    /\ ValuesOf(v, "Duration") = durations
    /\ ValuesOf(v, "Position") = [i \in 1..(4 * MaxBeatRes) |-> <<i - 1>>]
    /\ additional_tokens.TimeSignature => ValuesOf(v, "TimeSig") = config.time_signatures
    /\ additional_tokens.Tempo
          => ValuesOf(v, "Tempo") = [i \in 1..Len(config.tempos) |-> <<config.tempos[i]>>]
    /\ additional_tokens.Chord
          => Len(ValuesOf(v, "Chord")) = 3 + Len(config.chord_maps)
    /\ ValuesOf(v, "Program") = [i \in 1..129 |-> <<i - 2>>]

\* C13: every build from one configuration returns the same tokens in the
\* same order (Bar, Pitch, Velocity, Duration, Position, then TimeSig, Chord,
\* Tempo when enabled, then Program), and no build changes the configuration.
VocabularyDeterministic ==
    /\ [](pc = "vocab" =>
            \A i \in 1..Len(vocab) : vocab[i] = vocab[1] /\ InOrder(vocab[i]))
    /\ [][Len(vocab') > Len(vocab) =>
             /\ config' = config
             /\ additional_tokens' = additional_tokens
             /\ num_bars' = num_bars]_vars

\* Two builds done, every optional token enabled and the bars counted
VocabularyDeterministicWitness ==
    /\ pc = "vocab"
    /\ Len(vocab) >= 2
    /\ vocab[2] = vocab[1]
    /\ additional_tokens = [TimeSignature |-> TRUE, Chord |-> TRUE, Tempo |-> TRUE]
    /\ num_bars = 4
    /\ Len(config.tempos) = 2

----------------------------------------------------------------------------
(* ticks_per_bar across the scan *)

\* C14: with TimeSignature enabled, wherever the scan uses ticks_per_bar (at
\* the head of an iteration for the bar count, after the adoption of the
\* signature changes for the Position indices, after the loop for the chords)
\* it is time_division times the numerator of current_time_sig.
TicksPerBarFromSignature ==
    (pc \in {"enc", "encoded"} /\ additional_tokens.TimeSignature) =>
        enc.ticks_per_bar = metadata.time_division * enc.current_time_sig[1]

\* The same for the timelines whose first signature has the numerator 4
TicksPerBarFromSignatureFourFirst ==
    (/\ pc \in {"enc", "encoded"}
     /\ additional_tokens.TimeSignature
     /\ reduce_time_signature(metadata.time_sig_changes[1].numerator,
                              metadata.time_sig_changes[1].denominator)[1] = 4) =>
        enc.ticks_per_bar = metadata.time_division * enc.current_time_sig[1]

----------------------------------------------------------------------------
(* The bar count across the scan *)

\* The Bar events of the output, in its order
BarEvents == SelectSeq(Out, LAMBDA e : e.type = "Bar")

\* The Bar events carry the indices 0, 1, 2, ... in this order, at ticks that never decrease
BarsSequential ==
    /\ \A k \in 1..Len(BarEvents) : BarEvents[k].value = <<k - 1>>
    /\ \A k \in 1..(Len(BarEvents) - 1) : BarEvents[k].time <= BarEvents[k + 1].time

\* No iteration of the scan lowers current_bar
CurrentBarGrows == (pc = "enc" /\ pc' = "enc") => enc'.current_bar >= enc.current_bar

\* C15: across the scan current_bar never decreases, and the Bar events of
\* the output carry the indices 0, 1, 2, ... without gap or repeat (num_bars
\* is set), at nondecreasing ticks.
BarIndicesSequential ==
    /\ [](pc = "encoded" => BarsSequential)
    /\ [][CurrentBarGrows]_vars

\* The same while ticks_per_bar is constant over the run
BarIndicesSequentialConstant ==
    /\ []((pc = "encoded" /\ ConstantTicksPerBar) => BarsSequential)
    /\ [][ConstantTicksPerBar => CurrentBarGrows]_vars

----------------------------------------------------------------------------
(* The finalization of the decoder *)

\* The entries recorded after the sentinel, as the loop left them
Recorded(changes) == Tail(changes)

\* C16: finalization changes the tick of a sentinel only. When an entry was
\* recorded, the sentinel is removed and the timeline returned is the recorded
\* entries, each with the current_tick it was recorded at; when none was, the
\* timeline is the sentinel alone, at tick 0.
FinalizationKeepsTicks ==
    pc = "done" =>
        /\ midi.tempo_changes =
              IF Len(dec.tempo_changes) > 1 THEN Recorded(dec.tempo_changes)
              ELSE <<TempoChange(TEMPO, 0)>>
        /\ midi.time_signature_changes =
              IF Len(dec.time_signature_changes) > 1
              THEN Recorded(dec.time_signature_changes)
              ELSE <<TimeSignature(TIME_SIGNATURE[1], TIME_SIGNATURE[2], 0)>>

\* What the finalization returns: the recorded entries with the first one
\* moved to tick 0, or the sentinel alone at tick 0
FinalizationFirstAtZero ==
    pc = "done" =>
        /\ midi.tempo_changes =
              IF Len(dec.tempo_changes) > 1
              THEN [Recorded(dec.tempo_changes) EXCEPT ![1].time = 0]
              ELSE <<TempoChange(TEMPO, 0)>>
        /\ midi.time_signature_changes =
              IF Len(dec.time_signature_changes) > 1
              THEN [Recorded(dec.time_signature_changes) EXCEPT ![1].time = 0]
              ELSE <<TimeSignature(TIME_SIGNATURE[1], TIME_SIGNATURE[2], 0)>>

----------------------------------------------------------------------------
(* The Position indices of the encoder against the vocabulary *)

\* The Position tokens of the base vocabulary (lines 480-481)
PositionTokens == {Tok("Position", <<i>>) : i \in 0..(4 * MaxBeatRes - 1)}

\* C17: every Position event of the output (note-, tempo- or chord-anchored)
\* has an index in [0, 4 * max(beat_res)): its token is a Position token of
\* the base vocabulary.
PositionInVocabulary ==
    pc = "encoded" =>
        \A k \in 1..Len(Out) :
            Out[k].type = "Position" =>
                /\ Out[k].value[1] >= 0
                /\ Out[k].value[1] < 4 * MaxBeatRes
                /\ event_to_token(Out[k]) \in PositionTokens

\* The same for the timelines without a numerator above 4
PositionInVocabularyUpToFour ==
    (/\ pc = "encoded"
     /\ \A j \in 1..Len(metadata.time_sig_changes) :
            metadata.time_sig_changes[j].numerator <= 4) =>
        \A k \in 1..Len(Out) :
            Out[k].type = "Position" => event_to_token(Out[k]) \in PositionTokens

====
